---- MODULE Spec2Model ----
(***************************************************************************)
(* Translation retrieval with a time-bounded cache.                        *)
(*                                                                         *)
(* TranslationsController.getTranslations validates the query parameters   *)
(* and delegates to TranslationsService.getTranslationsByNamespace, which  *)
(* looks the (namespace, language) pair up in the cache and, on a miss,    *)
(* loads the spreadsheet document, finds the sheet, loads its header row,  *)
(* lists its rows, builds the key -> value map and stores it for an hour.  *)
(* Every `await` of the source is a step of its own, so requests in flight *)
(* interleave at exactly the points where the source yields.               *)
(***************************************************************************)
EXTENDS Integers, Sequences, FiniteSets, TLC

\* ------------------------------------------------------------------ bounds
\* Requests received in a behaviour.
MaxRequests == 3
\* Number of clock advances in a behaviour.
MaxTicks == 2
\* Milliseconds the clock advances by in one Tick (forty minutes).
ClockStep == 2400000

\* One hour in milliseconds, as the claims word the expiration window.
OneHourMs == 3600000

\* ------------------------------------------------------------ JS values
\* `undefined`: an absent query parameter, a missing cell, a cache miss.
Absent == "<undefined>"

\* !v for a string-or-undefined value: undefined and "" are falsy.
Falsy(v) == v = Absent \/ v = ""

\* The empty object {}.
EmptyMap == <<>>

\* The value `undefined` where values of several kinds are told apart.
Undefined == [type |-> "undefined"]

\* The handler invocations that can be in flight together; the place of a
\* finished one is taken by the next request.
Reqs == {1, 2}

\* Values of the `lang` query parameter.
LangParams == {Absent, "", "en", "x:en"}

\* Values of the `ns` query parameter.
NsParams == {Absent, "common", "common:x"}

\* ------------------------------------------------- the remote spreadsheet
\* A row of a sheet: column name -> cell text.
Row2(k, v1) == ("key" :> k) @@ ("en" :> v1)
Row3(k, v1, v2) == ("key" :> k) @@ ("en" :> v1) @@ ("x:en" :> v2)

\* The versions the remote document goes through (its owners edit it while
\* the service runs).  Each maps a sheet title to its header row and its data
\* rows.  The edit replaces the rows of "common", drops its "x:en" column and
\* deletes the sheet "common:x".
DocFirst ==
    ("common" :> [header |-> <<"key", "en", "x:en">>,
                  rows |-> << Row3("hi", "Hello", "X1"),
                              Row3("hi", "Howdy", ""),
                              Row3("", "Orphan", "") >>])
    @@ ("common:x" :> [header |-> <<"key", "en">>, rows |-> << >>])

DocEdited ==
    ("common" :> [header |-> <<"key", "en">>,
                  rows |-> << Row2("bye", "Bye"),
                              Row2("__proto__", "P") >>])

DocVersions == <<DocFirst, DocEdited>>

\* row.get(column): the cell, or undefined when the row has no such column.
RowGet(row, column) == IF column \in DOMAIN row THEN row[column] ELSE Absent

\* ---------------------------------------------------------------- cache
\* Time-to-live passed to cacheManager.set.
TTL == 60 * 60 * 1000

\* cacheKey = `translations:${ns}:${lang}`
CacheKey(ns, lang) == "translations:" \o ns \o ":" \o lang

\* What cacheManager.get resolves to.
Object(m) == [type |-> "object", val |-> m]

\* The expiration by the module's default time-to-live (ttl: 3600) in place
\* of the one passed to set.
ExpiryByModuleDefault(t) == t + 3600

\* The expiration the store gives an entry written at `t` with ttl TTL.
Expiry(t) == t + TTL

\* cacheManager.get(key) at time t: the stored value while the entry has not
\* expired, undefined when there is none or it has expired.  At the very
\* millisecond of expiration the store may answer either way.
GetOutcomes(c, key, t) ==
    IF key \notin DOMAIN c THEN {Undefined}
    ELSE IF t < c[key].exp THEN {Object(c[key].val)}
    ELSE IF t = c[key].exp THEN {Object(c[key].val), Undefined}
    ELSE {Undefined}

\* A write that is acknowledged and not stored.
SetEntryDropped(c, key, value, t, src) == c

\* A write that merges the new map into the one already stored.
SetEntryMerged(c, key, value, t, src) ==
    [k \in DOMAIN c \cup {key} |->
        IF k = key
        THEN [val |-> IF key \in DOMAIN c THEN value @@ c[key].val ELSE value,
              exp |-> t + TTL, at |-> t, src |-> src]
        ELSE c[k]]

\* cacheManager.set(key, value, ttl) at time t: the entry of `key` is replaced
\* whole.  `src` remembers the (namespace, language, row listing) the value
\* was built from.
SetEntry(c, key, value, t, src) ==
    [k \in DOMAIN c \cup {key} |->
        IF k = key THEN [val |-> value, exp |-> Expiry(t), at |-> t, src |-> src]
        ELSE c[k]]

\* ------------------------------------------------------------ controller
\* A check for the absent parameter only: lang === undefined.
LangUndefinedOnly(lang) == lang = Absent

\* if (!lang)
LangMissing(lang) == Falsy(lang)

\* The parameter passed through: `translations:${undefined}:...` for no ns.
NsPassedThrough(ns) == ns

\* if (ns) ... else 'common'
DefaultNs(ns) == IF Falsy(ns) THEN "common" ELSE ns

BadRequest == [status |-> 400, body |-> EmptyMap,
               message |-> "Language parameter (lang) is required."]

Ok(m) == [status |-> 200, body |-> m, message |-> ""]

NoResponse == [status |-> 0, body |-> EmptyMap, message |-> ""]

\* --------------------------------------------------------------- service
\* A hit test that takes an empty object for a miss.
TruthyNonEmpty(v) == v.type = "object" /\ DOMAIN v.val # {}

\* if (cachedTranslations): any object is truthy, the empty one included.
Truthy(v) == v.type = "object"

\* A lookup that falls back on the first sheet: sheetsByTitle[ns] || sheetsByIndex[0].
FindSheetOrFirst(titles, ns) ==
    IF ns \in titles THEN ns
    ELSE IF titles = {} THEN Absent
    ELSE CHOOSE t \in titles : TRUE

\* this.doc.sheetsByTitle[ns]
FindSheet(titles, ns) == IF ns \in titles THEN ns ELSE Absent

\* A check that only asks for a loaded header row.
HeaderLoaded(header, lang) == Len(header) > 0

\* sheet.headerValues.includes(lang)
HeaderIncludes(header, lang) == \E i \in DOMAIN header : header[i] = lang

\* translations[key] = value on a plain object: the name __proto__ is the
\* prototype accessor, and assigning a string to it stores nothing.
Put(m, key, value) ==
    IF key = "__proto__" THEN m
    ELSE [k \in DOMAIN m \cup {key} |-> IF k = key THEN value ELSE m[k]]

\* The row test with the value left out: if (key).
AddRowKeyOnly(m, row, lang) ==
    LET key == RowGet(row, "key")
        value == RowGet(row, lang)
    IN IF ~Falsy(key) THEN Put(m, key, IF value = Absent THEN "" ELSE value) ELSE m

\* The body of rows.forEach for one row.
AddRow(m, row, lang) ==
    LET key == RowGet(row, "key")
        value == RowGet(row, lang)
    IN IF ~Falsy(key) /\ ~Falsy(value) THEN Put(m, key, value) ELSE m

\* rows.forEach(...) over rows[1..n], starting from {}.
RECURSIVE TransformUpTo(_, _, _)
TransformUpTo(rows, lang, n) ==
    IF n = 0 THEN EmptyMap ELSE AddRow(TransformUpTo(rows, lang, n - 1), rows[n], lang)

Transform(rows, lang) == TransformUpTo(rows, lang, Len(rows))

\* The errors thrown inside the try block.
RemoteError == [name |-> "Error", message |-> "remote request failed"]

SheetNotFound ==
    [name |-> "Error",
     message |-> "Translations sheet not found. Ensure it is the first sheet or specify by title."]

ColumnNotFound(lang, ns) ==
    [name |-> "Error",
     message |-> "Language column '" \o lang \o "' not found in sheet '" \o ns
                 \o "'. Ensure it exists."]

NoError == [name |-> "", message |-> ""]

\* A catch block that rethrows what it caught.
Rethrow(err, lang) == [status |-> 500, body |-> EmptyMap, message |-> err.message]

\* catch (error) { ... throw new InternalServerErrorException(...) }
WrapError(err, lang) ==
    [status |-> 500, body |-> EmptyMap,
     message |-> "Failed to retrieve translations for " \o lang
                 \o ". Please check sheet permissions or configuration."]

\* -------------------------------------------------------- configuration
\* A value read from the environment: undefined, or a string given by its
\* characters.
Str(chars) == [type |-> "string", chars |-> chars]

\* !v for such a value.
FalsyValue(v) == v.type = "undefined" \/ Len(v.chars) = 0

\* v || ''
OrEmpty(v) == IF FalsyValue(v) THEN Str(<< >>) ELSE v

\* The base64 alphabet; a character's place in it, less one, is its six bits.
Base64Alphabet ==
    << "A", "B", "C", "D", "E", "F", "G", "H", "I", "J", "K", "L", "M",
       "N", "O", "P", "Q", "R", "S", "T", "U", "V", "W", "X", "Y", "Z",
       "a", "b", "c", "d", "e", "f", "g", "h", "i", "j", "k", "l", "m",
       "n", "o", "p", "q", "r", "s", "t", "u", "v", "w", "x", "y", "z",
       "0", "1", "2", "3", "4", "5", "6", "7", "8", "9", "+", "/" >>

IsBase64Digit(ch) == \E i \in DOMAIN Base64Alphabet : Base64Alphabet[i] = ch

Sextet(ch) == (CHOOSE i \in DOMAIN Base64Alphabet : Base64Alphabet[i] = ch) - 1

RECURSIVE Pow(_, _)
Pow(b, n) == IF n = 0 THEN 1 ELSE b * Pow(b, n - 1)

\* The digits read as one number, six bits each, first digit highest.
RECURSIVE BitsOf(_, _)
BitsOf(digits, n) ==
    IF n = 0 THEN 0 ELSE BitsOf(digits, n - 1) * 64 + Sextet(digits[n])

\* Buffer.from(text, 'base64'): characters outside the alphabet are skipped,
\* and every whole group of eight bits of the digits is a byte; bits left over
\* at the end are dropped, so a single digit gives no byte at all.
Base64Decode(chars) ==
    LET digits == SelectSeq(chars, IsBase64Digit)
        n == Len(digits)
        count == (n * 6) \div 8
        bits == BitsOf(digits, n)
    IN [j \in 1..count |-> (bits \div Pow(2, n * 6 - 8 * j)) % 256]

\* buffer.toString('ascii'): one character per byte, the high bit cleared;
\* the text is given by its character codes.
ToAscii(bytes) == [j \in DOMAIN bytes |-> bytes[j] % 128]

\* googleConfig().google.privateKey
PrivateKey(v) == Str(ToAscii(Base64Decode(OrEmpty(v).chars)))

\* The environments the process can be started in: each of the three
\* variables unset, empty, or set.  "C" is a lone base64 digit; "Cg" encodes
\* a line feed.
Envs ==
    [GOOGLE_SPREADSHEET_ID : {Undefined, Str(<< >>), Str(<<"1">>)},
     GOOGLE_SERVICE_ACCOUNT_EMAIL : {Undefined, Str(<< >>), Str(<<"a">>)},
     GOOGLE_PRIVATE_KEY : {Undefined, Str(<< >>), Str(<<"C">>), Str(<<"C", "g">>)}]

\* The service before its constructor has run, after it has returned, and
\* after it has thrown.
Constructing == [state |-> "constructing", error |-> ""]
Initialized == [state |-> "initialized", error |-> ""]
ConfigError(errorMessage) ==
    [state |-> "failed", error |-> "Configuration error: " \o errorMessage]

\* A validation that leaves the private key out.
ValidateIdAndEmail(spreadsheetId, serviceAccountEmail, privateKey) ==
    IF FalsyValue(spreadsheetId)
    THEN ConfigError("GOOGLE_SPREADSHEET_ID is not defined in environment variables.")
    ELSE IF FalsyValue(serviceAccountEmail)
    THEN ConfigError("GOOGLE_SERVICE_ACCOUNT_EMAIL is not defined in environment variables.")
    ELSE Initialized

\* validateConfig: the first falsy value, in this order, is the error thrown.
ValidateConfig(spreadsheetId, serviceAccountEmail, privateKey) ==
    IF FalsyValue(spreadsheetId)
    THEN ConfigError("GOOGLE_SPREADSHEET_ID is not defined in environment variables.")
    ELSE IF FalsyValue(serviceAccountEmail)
    THEN ConfigError("GOOGLE_SERVICE_ACCOUNT_EMAIL is not defined in environment variables.")
    ELSE IF FalsyValue(privateKey)
    THEN ConfigError("GOOGLE_PRIVATE_KEY is not defined or could not be processed. Make sure it's correctly set up in .env.")
    ELSE Initialized

\* The constructor: the three values are read and validated; the JWT client
\* and the document handle made after that take the values as they are.
Construct(e) ==
    ValidateConfig(e.GOOGLE_SPREADSHEET_ID, e.GOOGLE_SERVICE_ACCOUNT_EMAIL,
                   PrivateKey(e.GOOGLE_PRIVATE_KEY))

\* ----------------------------------------------------------------- state
VARIABLES
    req,           \* per request slot: the handler's position and locals
    cache,         \* the cache store: key -> entry
    now,           \* the store's clock, in milliseconds
    remote,        \* which version the remote document is at
    received,      \* how many requests have arrived
    env,           \* process.env, as far as the service reads it
    service,       \* the TranslationsService: being constructed, ready, failed
    written        \* per (namespace, language): when a call for the pair last
                   \* wrote the cache, -1 if none has (a record for the properties)

vars == <<req, cache, now, remote, received, env, service, written>>

Remote == DocVersions[remote]

\* A request that has not arrived yet.
Idle ==
    [pc |-> "idle", lang |-> Absent, nsParam |-> Absent, ns |-> Absent,
     cacheKey |-> "", sheet |-> Absent, rows |-> << >>, translations |-> EmptyMap,
     calls |-> << >>, reads |-> 0, writes |-> 0, wroteAt |-> -1,
     lookup |-> "none", pairLookup |-> "none", sawSheet |-> "", sawLang |-> "", listedLang |-> "",
     cause |-> NoError, resp |-> NoResponse]

Init ==
    /\ req = [r \in Reqs |-> Idle]
    /\ cache = << >>
    /\ now = 0
    /\ remote \in DOMAIN DocVersions
    /\ received = 0
    /\ env \in Envs
    /\ service = Constructing
    /\ written = [p \in (NsParams \ {Absent}) \X (LangParams \ {Absent, ""}) |-> -1]

\* A catch block that also invalidates the key it failed to refresh.
OnErrorInvalidate(c, q, err) ==
    [req |-> [q EXCEPT !.pc = "done", !.cause = err, !.resp = WrapError(err, q.lang),
                       !.sheet = Absent],
     cache |-> [k \in DOMAIN c \ {q.cacheKey} |-> c[k]]]

\* A catch block that swallows the error and never answers.
OnErrorHang(c, q, err) ==
    [req |-> [q EXCEPT !.pc = "hung", !.cause = err, !.sheet = Absent],
     cache |-> c]

\* A catch block that starts the fetch over, once, before it gives up.
OnErrorRetry(c, q, err) ==
    IF Len(q.calls) <= 3
    THEN [req |-> [q EXCEPT !.pc = "loadInfo", !.calls = Append(q.calls, "loadInfo"),
                            !.sheet = Absent],
          cache |-> c]
    ELSE [req |-> [q EXCEPT !.pc = "done", !.cause = err, !.resp = WrapError(err, q.lang),
                            !.sheet = Absent],
          cache |-> c]

\* The catch block, entered with `err` thrown inside the try block: the error
\* is logged and replaced by the generic exception; the cache is not touched.
OnError(c, q, err) ==
    [req |-> [q EXCEPT !.pc = "done", !.cause = err, !.resp = WrapError(err, q.lang),
                       !.sheet = Absent],
     cache |-> c]

\* getTranslations up to the first await: the lang check, the default
\* namespace, the cache key, and the cache lookup issued.
Handle(lang, nsParam) ==
    IF LangMissing(lang)
    THEN [Idle EXCEPT !.pc = "done", !.lang = lang, !.resp = BadRequest]
    ELSE [Idle EXCEPT !.pc = "get", !.lang = lang, !.nsParam = nsParam,
                      !.ns = DefaultNs(nsParam),
                      !.cacheKey = CacheKey(DefaultNs(nsParam), lang),
                      !.reads = 1]

\* How long before time t a write dated `at` was made (-1: there was none):
\* less than an hour, exactly an hour, or longer.
Age(at, t) ==
    IF at < 0 THEN "absent"
    ELSE IF t < at + OneHourMs THEN "live"
    ELSE IF t = at + OneHourMs THEN "edge"
    ELSE "expired"

\* What the lookup of `key` at time t finds, by the age of the entry.
Lookup(c, key, t) == Age(IF key \in DOMAIN c THEN c[key].at ELSE -1, t)

\* The application starts: new TranslationsService(configService, cacheManager).
\* The server listens only when every provider has been constructed.
Boot ==
    /\ service.state = "constructing"
    /\ service' = Construct(env)
    /\ UNCHANGED <<req, cache, now, remote, received, env, written>>

\* A request arrives at GET /translations.
Receive(r) ==
    /\ service.state = "initialized"
    /\ req[r].pc \in {"idle", "done"}
    /\ received < MaxRequests
    /\ received' = received + 1
    /\ \E lang \in LangParams, nsParam \in NsParams :
          req' = [req EXCEPT ![r] = Handle(lang, nsParam)]
    /\ UNCHANGED <<env, service, cache, now, remote, written>>

\* await this.cacheManager.get(cacheKey), then the hit test.
CacheGet(r) ==
    /\ req[r].pc = "get"
    /\ \E v \in GetOutcomes(cache, req[r].cacheKey, now) :
          LET q == [req[r] EXCEPT
                        !.lookup = Lookup(cache, req[r].cacheKey, now),
                        !.pairLookup = Age(written[<<req[r].ns, req[r].lang>>], now)]
          IN req' = [req EXCEPT ![r] =
                IF Truthy(v)
                THEN [q EXCEPT !.pc = "done", !.resp = Ok(v.val)]
                ELSE [q EXCEPT !.pc = "loadInfo", !.calls = <<"loadInfo">>]]
    /\ UNCHANGED <<env, service, cache, now, remote, received, written>>

\* Whether the header row lists the language (the record of what a request
\* has seen of the remote sheet).
Seen(header, lang) == IF \E i \in DOMAIN header : header[i] = lang THEN "yes" ELSE "no"

\* await this.doc.loadInfo(), then the sheet lookup.  this.doc is shared by
\* the requests, but sheetsByTitle is read in the very continuation of the
\* request's own loadInfo, so it holds what that load fetched.
LoadInfo(r) ==
    \/ /\ req[r].pc = "loadInfo"
       /\ LET o == OnError(cache, req[r], RemoteError)
          IN req' = [req EXCEPT ![r] = o.req] /\ cache' = o.cache
       /\ UNCHANGED <<env, service, now, remote, received, written>>
    \/ /\ req[r].pc = "loadInfo"
       /\ LET sheetsByTitle == DOMAIN Remote
              sheet == FindSheet(sheetsByTitle, req[r].ns)
              q == [req[r] EXCEPT !.sawSheet =
                        IF req[r].ns \in DOMAIN Remote THEN "yes" ELSE "no"]
              o == OnError(cache, q, SheetNotFound)
          IN IF sheet = Absent
             THEN req' = [req EXCEPT ![r] = o.req] /\ cache' = o.cache
             ELSE /\ req' = [req EXCEPT ![r] =
                        [q EXCEPT !.pc = "loadHeaderRow", !.sheet = sheet,
                                  !.calls = Append(q.calls, "loadHeaderRow")]]
                  /\ cache' = cache
       /\ UNCHANGED <<env, service, now, remote, received, written>>

\* await sheet.loadHeaderRow(), then the language column check.  The load
\* fails when the sheet has been deleted meanwhile; sheet.headerValues is read
\* in the continuation of the request's own load.
LoadHeaderRow(r) ==
    \/ /\ req[r].pc = "loadHeaderRow"
       /\ LET o == OnError(cache, req[r], RemoteError)
          IN req' = [req EXCEPT ![r] = o.req] /\ cache' = o.cache
       /\ UNCHANGED <<env, service, now, remote, received, written>>
    \/ /\ req[r].pc = "loadHeaderRow"
       /\ req[r].sheet \in DOMAIN Remote
       /\ LET headerValues == Remote[req[r].sheet].header
              q == [req[r] EXCEPT !.sawLang = Seen(headerValues, req[r].lang)]
              o == OnError(cache, q, ColumnNotFound(req[r].lang, req[r].ns))
          IN IF ~HeaderIncludes(headerValues, req[r].lang)
             THEN req' = [req EXCEPT ![r] = o.req] /\ cache' = o.cache
             ELSE /\ req' = [req EXCEPT ![r] =
                        [q EXCEPT !.pc = "getRows",
                                  !.calls = Append(q.calls, "getRows")]]
                  /\ cache' = cache
       /\ UNCHANGED <<env, service, now, remote, received, written>>

\* await sheet.getRows(), then rows.forEach and the cache write issued.  The
\* listing fails when the sheet has been deleted meanwhile.
GetRows(r) ==
    \/ /\ req[r].pc = "getRows"
       /\ LET o == OnError(cache, req[r], RemoteError)
          IN req' = [req EXCEPT ![r] = o.req] /\ cache' = o.cache
       /\ UNCHANGED <<env, service, now, remote, received, written>>
    \/ /\ req[r].pc = "getRows"
       /\ req[r].sheet \in DOMAIN Remote
       /\ LET rows == Remote[req[r].sheet].rows
          IN req' = [req EXCEPT ![r] =
                [req[r] EXCEPT !.pc = "set", !.rows = rows,
                               !.listedLang = Seen(Remote[req[r].sheet].header, req[r].lang),
                               !.translations = Transform(rows, req[r].lang),
                               !.writes = 1]]
       /\ UNCHANGED <<env, service, cache, now, remote, received, written>>

\* await this.cacheManager.set(cacheKey, translations, 60 * 60 * 1000), then
\* return translations.
CacheSet(r) ==
    /\ req[r].pc = "set"
    /\ cache' = SetEntry(cache, req[r].cacheKey, req[r].translations, now,
                         [ns |-> req[r].ns, lang |-> req[r].lang, rows |-> req[r].rows])
    /\ req' = [req EXCEPT ![r] =
          [req[r] EXCEPT !.pc = "done", !.resp = Ok(req[r].translations),
                         !.wroteAt = now,
                         !.sheet = Absent, !.rows = << >>, !.translations = EmptyMap]]
    /\ written' = [written EXCEPT ![<<req[r].ns, req[r].lang>>] = now]
    /\ UNCHANGED <<env, service, now, remote, received>>

\* Time passes.
Tick ==
    /\ now + ClockStep <= MaxTicks * ClockStep
    /\ now' = now + ClockStep
    /\ UNCHANGED <<env, service, req, cache, remote, received, written>>

\* The owners of the spreadsheet edit it.
RemoteEdit ==
    /\ remote < Len(DocVersions)
    /\ remote' = remote + 1
    /\ UNCHANGED <<env, service, req, cache, now, received, written>>

Next ==
    \/ Boot
    \/ \E r \in Reqs : Receive(r)
    \/ \E r \in Reqs : CacheGet(r)
    \/ \E r \in Reqs : LoadInfo(r)
    \/ \E r \in Reqs : LoadHeaderRow(r)
    \/ \E r \in Reqs : GetRows(r)
    \/ \E r \in Reqs : CacheSet(r)
    \/ Tick
    \/ RemoteEdit

Spec == Init /\ [][Next]_vars

\* Every cache operation and every remote operation a request awaits returns
\* or fails in the end, and the request resumes.
Resumes ==
    \A r \in Reqs :
        /\ WF_vars(CacheGet(r))
        /\ WF_vars(LoadInfo(r))
        /\ WF_vars(LoadHeaderRow(r))
        /\ WF_vars(GetRows(r))
        /\ WF_vars(CacheSet(r))

FairSpec == Spec /\ Resumes

\* ============================================================== properties

C2_ExpiredPairIsMiss ==
    \A r \in Reqs :
        req[r].pairLookup = "expired"
        => /\ Len(req[r].calls) >= 1
           /\ req[r].calls[1] = "loadInfo"

\* What holds of C2 per cache key: a lookup made more than an hour after the
\* latest write under the key misses, and a map the call then returns is one
\* it fetched and wrote itself.
ExpiredEntryIsMiss ==
    \A r \in Reqs :
        req[r].lookup = "expired"
        => /\ Len(req[r].calls) >= 1
           /\ req[r].calls[1] = "loadInfo"
           /\ req[r].resp.status = 200 => (req[r].writes = 1 /\ req[r].wroteAt >= 0)

\* ---------------------------------------------------------------------- C3
\* C3: a request whose lang is absent or empty is answered 400 with the
\* message 'Language parameter (lang) is required.'; it makes no remote call
\* and neither reads nor writes the cache, whatever ns is.
C3_MissingLangRejected ==
    \A r \in Reqs :
        (req[r].pc # "idle" /\ Falsy(req[r].lang))
        => /\ req[r].pc = "done"
           /\ req[r].resp.status = 400
           /\ req[r].resp.message = "Language parameter (lang) is required."
           /\ req[r].calls = << >>
           /\ req[r].reads = 0
           /\ req[r].writes = 0
           /\ req[r].wroteAt = -1

\* One request came without lang and another with an empty lang; both were
\* rejected.
C3_Witness ==
    \E r, q \in Reqs :
        /\ req[r].pc = "done" /\ req[r].lang = Absent /\ req[r].resp.status = 400
        /\ req[q].pc = "done" /\ req[q].lang = "" /\ req[q].resp.status = 400

\* ---------------------------------------------------------------------- C4
\* C4: a call whose loadInfo found no sheet titled as the namespace ends in an
\* error: it loads no header, lists no rows, returns no map and writes nothing
\* to the cache.
C4_MissingSheetFails ==
    \A r \in Reqs :
        req[r].sawSheet = "no"
        => /\ req[r].pc = "done"
           /\ req[r].resp.status = 500
           /\ req[r].calls = <<"loadInfo">>
           /\ req[r].writes = 0
           /\ req[r].wroteAt = -1

\* A call for a namespace the document has no sheet for has failed, and the
\* cache holds nothing under its key.
C4_Witness ==
    \E r \in Reqs :
        /\ req[r].sawSheet = "no"
        /\ req[r].pc = "done"
        /\ req[r].resp.status = 500
        /\ req[r].cacheKey \notin DOMAIN cache

\* ---------------------------------------------------------------------- C5
\* C5 as stated: a call fails, and neither returns nor caches a map, whenever
\* the header row of its sheet lacks the language, also when the column went
\* away between the header load and the row listing.
C5_NoMapWithoutColumn ==
    \A r \in Reqs :
        (req[r].sawLang = "no" \/ req[r].listedLang = "no")
        => /\ req[r].pc = "done"
           /\ req[r].resp.status = 500
           /\ req[r].writes = 0

\* C5 amended: a call whose own loadHeaderRow fetched a header row without the
\* language fails: it lists no rows, returns no map and writes nothing to the
\* cache, whatever the other requests and the owners of the sheet do.
C5_HeaderCheckedAtLoad ==
    \A r \in Reqs :
        req[r].sawLang = "no"
        => /\ req[r].pc = "done"
           /\ req[r].resp.status = 500
           /\ req[r].calls = <<"loadInfo", "loadHeaderRow">>
           /\ req[r].writes = 0
           /\ req[r].wroteAt = -1

\* A call has failed on a header row without its language while another
\* request was in flight.
C5_Witness ==
    \E r, q \in Reqs :
        /\ req[r].sawLang = "no"
        /\ req[r].pc = "done"
        /\ req[r].resp.status = 500
        /\ q # r
        /\ req[q].pc \in {"loadInfo", "loadHeaderRow", "getRows", "set"}

\* ---------------------------------------------------------------------- C6
\* The listed rows whose 'key' cell and language cell are both non-empty.
ValidRows(rows, lang) ==
    {i \in DOMAIN rows : RowGet(rows[i], "key") \notin {Absent, ""}
                         /\ RowGet(rows[i], lang) \notin {Absent, ""}}

\* C6 as stated: the map holds exactly the keys of the valid rows, and every
\* valid row's key is mapped to that row's own value.
C6_EveryValidRowVerbatim ==
    \A r \in Reqs :
        req[r].pc = "set"
        => LET rows == req[r].rows
               V == ValidRows(rows, req[r].lang)
           IN /\ DOMAIN req[r].translations = {rows[i]["key"] : i \in V}
              /\ \A i \in V : req[r].translations[rows[i]["key"]] = rows[i][req[r].lang]

\* The map the rows stand for: the keys of the valid rows, the property name
\* __proto__ left out, each mapped to the value of the last valid row with
\* that key.
ExpectedMap(rows, lang) ==
    LET V == {i \in ValidRows(rows, lang) : rows[i]["key"] # "__proto__"}
        Last(k) == CHOOSE i \in V :
                      rows[i]["key"] = k /\ \A j \in V : rows[j]["key"] = k => j <= i
    IN [k \in {rows[i]["key"] : i \in V} |-> rows[Last(k)][lang]]

\* C6 amended: rows with an empty or absent key or value are excluded, and
\* every other row's key is in the map, mapped verbatim to the value of the
\* last such row with that key; a row whose key is __proto__ is not stored.
C6_LastValidRowWins ==
    \A r \in Reqs :
        req[r].pc = "set"
        => req[r].translations = ExpectedMap(req[r].rows, req[r].lang)

\* A call listed three rows, one of them without a key and two with the same
\* key, and built the map of the later of the two.
C6_Witness ==
    \E r \in Reqs :
        /\ req[r].pc = "set"
        /\ Len(req[r].rows) = 3
        /\ Cardinality(ValidRows(req[r].rows, req[r].lang)) = 2
        /\ req[r].translations = ("hi" :> "Howdy")

\* ---------------------------------------------------------------------- C7
\* C7: a request without ns is handled as the same request with ns=common:
\* the service is called for the namespace "common" under the cache key
\* translations:common:<lang>, which is all it reads of ns, so the remote
\* calls, the cache and the response are those of the explicit request.
C7_OmittedNsIsCommon ==
    /\ \A r \in Reqs :
          (req[r].pc # "idle" /\ ~Falsy(req[r].lang) /\ req[r].nsParam = Absent)
          => /\ req[r].ns = "common"
             /\ req[r].cacheKey = "translations:common:" \o req[r].lang
    /\ \A r, q \in Reqs :
          ( /\ req[r].pc # "idle" /\ req[q].pc # "idle"
            /\ ~Falsy(req[r].lang) /\ req[q].lang = req[r].lang
            /\ req[r].nsParam = Absent /\ req[q].nsParam = "common" )
          => /\ req[q].ns = req[r].ns
             /\ req[q].cacheKey = req[r].cacheKey

\* A request without ns fetched and cached the map of "common"; a request
\* with ns=common then hit that entry and returned the same response.
C7_Witness ==
    \E r, q \in Reqs :
        /\ req[r].nsParam = Absent /\ req[q].nsParam = "common"
        /\ req[r].lang = req[q].lang
        /\ req[r].pc = "done" /\ req[r].wroteAt >= 0
        /\ req[q].pc = "done" /\ req[q].lookup = "live" /\ req[q].calls = << >>
        /\ req[q].resp = req[r].resp
        /\ req[r].resp.status = 200

\* ---------------------------------------------------------------------- C8
\* The exception the caller is to see for a language, whatever went wrong.
GenericFailure(lang) ==
    [status |-> 500, body |-> EmptyMap,
     message |-> "Failed to retrieve translations for " \o lang
                 \o ". Please check sheet permissions or configuration."]

\* C8: whatever was thrown inside the try block (a remote error of loadInfo,
\* loadHeaderRow or getRows, the sheet not found, the language column not
\* found), the caller gets the one 500 response that depends on the language
\* only; two failed requests for a language get equal responses.
C8_FailuresLookAlike ==
    /\ \A r \in Reqs :
          req[r].cause # NoError
          => /\ req[r].pc = "done"
             /\ req[r].resp = GenericFailure(req[r].lang)
    /\ \A r, q \in Reqs :
          (req[r].cause # NoError /\ req[q].cause # NoError /\ req[r].lang = req[q].lang)
          => req[r].resp = req[q].resp

\* Two requests for one language failed for different reasons (the sheet was
\* not found, a remote call failed) and got the same response.
C8_Witness ==
    \E r, q \in Reqs :
        /\ req[r].lang = req[q].lang
        /\ req[r].cause = SheetNotFound
        /\ req[q].cause = RemoteError
        /\ req[q].calls = <<"loadInfo", "loadHeaderRow", "getRows">>
        /\ req[r].resp = req[q].resp
        /\ req[r].resp.status = 500

\* ---------------------------------------------------------------------- C9
\* The namespaces and languages a call can be made for.
Namespaces == {DefaultNs(n) : n \in NsParams}
Languages == {l \in LangParams : l \notin {Absent, ""}}

\* C9: for every (namespace, language), the entry the cache holds for the
\* pair, if any and unless expired, is the complete map of one row listing of
\* the namespace's sheet for that language.
C9_EntryIsMapOfItsPair ==
    \A ns \in Namespaces, lang \in Languages :
        LET k == "translations:" \o ns \o ":" \o lang
        IN (k \in DOMAIN cache /\ now < cache[k].at + OneHourMs)
           => /\ cache[k].src.ns = ns
              /\ cache[k].src.lang = lang
              /\ cache[k].val = ExpectedMap(cache[k].src.rows, lang)
              /\ \E v \in DOMAIN DocVersions :
                    /\ ns \in DOMAIN DocVersions[v]
                    /\ DocVersions[v][ns].rows = cache[k].src.rows

\* --------------------------------------------------------------------- C10
\* C10: only the last step of a call that returns its map changes the cache;
\* a step that ends a call in the retrieval error leaves every entry as it
\* was, the call has issued no cache write, and no other request's state
\* changes with it.
C10_FailureLeavesCacheAlone ==
    [][ \A r \in Reqs :
          req'[r] # req[r]
          => /\ cache' # cache
                => (req[r].pc = "set" /\ req'[r].pc = "done" /\ req'[r].resp.status = 200)
             /\ req'[r].resp.status = 500
                => /\ cache' = cache
                   /\ req'[r].writes = 0
                   /\ req'[r].wroteAt = -1
                   /\ \A q \in Reqs \ {r} : req'[q] = req[q] ]_vars

\* A call found an expired entry under its key, failed on a remote error, and
\* the entry is still there.
C10_Witness ==
    \E r \in Reqs :
        /\ req[r].pc = "done"
        /\ req[r].resp.status = 500
        /\ req[r].lookup = "expired"
        /\ req[r].cacheKey \in DOMAIN cache
        /\ cache[req[r].cacheKey].at + OneHourMs < now

\* --------------------------------------------------------------------- C11
\* Some one of the three values is missing or empty in the environment.
AnyMissing(e) ==
    \/ FalsyValue(e.GOOGLE_SPREADSHEET_ID)
    \/ FalsyValue(e.GOOGLE_SERVICE_ACCOUNT_EMAIL)
    \/ FalsyValue(e.GOOGLE_PRIVATE_KEY)

\* The errors construction can fail with.
ConfigErrors ==
    {"Configuration error: GOOGLE_SPREADSHEET_ID is not defined in environment variables.",
     "Configuration error: GOOGLE_SERVICE_ACCOUNT_EMAIL is not defined in environment variables.",
     "Configuration error: GOOGLE_PRIVATE_KEY is not defined or could not be processed. Make sure it's correctly set up in .env."}

BothMissedAndWrote ==
    \A r, q \in Reqs :
        ( /\ r # q
          /\ req[r].ns = req[q].ns /\ req[r].lang = req[q].lang
          /\ req[r].lookup = "absent" /\ req[q].lookup = "absent"
          /\ req[r].resp.status = 200 /\ req[q].resp.status = 200
          /\ req[r].wroteAt >= req[q].wroteAt )
        => /\ req[r].calls = <<"loadInfo", "loadHeaderRow", "getRows">>
           /\ req[q].calls = <<"loadInfo", "loadHeaderRow", "getRows">>
           /\ req[r].writes = 1 /\ req[q].writes = 1
           /\ req[q].wroteAt >= 0
           /\ req[r].cacheKey \in DOMAIN cache
           /\ cache[req[r].cacheKey].exp = req[r].wroteAt + OneHourMs
           /\ IF req[r].wroteAt > req[q].wroteAt
              THEN cache[req[r].cacheKey].val = req[r].resp.body
              ELSE cache[req[r].cacheKey].val \in {req[r].resp.body, req[q].resp.body}

\* A cache write replaces the entry of its key by the writer's map and leaves
\* the other entries alone; nothing else changes the cache.
WriteReplaces ==
    \A r \in Reqs :
        IF req[r].pc = "set" /\ req'[r].pc = "done"
        THEN /\ DOMAIN cache' = DOMAIN cache \cup {req[r].cacheKey}
             /\ cache'[req[r].cacheKey].val = req[r].translations
             /\ cache'[req[r].cacheKey].exp = now + OneHourMs
             /\ req'[r].resp.body = req[r].translations
             /\ \A k \in DOMAIN cache : k # req[r].cacheKey => cache'[k] = cache[k]
        ELSE req'[r] # req[r] => cache' = cache

\* C12: of two concurrent misses for one pair each queries the remote document
\* and each writes the cache; the entry left is exactly the map of the call
\* that wrote last (replaced, not merged), expiring an hour after that write.
C12_LastWriteWins == [] BothMissedAndWrote /\ [][WriteReplaces]_vars

\* Two calls for (common, en) both missed; the document was edited between
\* their row listings; the entry is the later writer's map {bye: Bye} and
\* holds nothing of the other's {hi: Howdy}.
C12_Witness ==
    \E r, q \in Reqs :
        /\ r # q
        /\ req[r].ns = "common" /\ req[q].ns = "common"
        /\ req[r].lang = "en" /\ req[q].lang = "en"
        /\ req[r].lookup = "absent" /\ req[q].lookup = "absent"
        /\ req[q].resp = Ok("hi" :> "Howdy")
        /\ req[r].resp = Ok("bye" :> "Bye")
        /\ req[r].wroteAt > req[q].wroteAt
        /\ cache["translations:common:en"].val = ("bye" :> "Bye")
        /\ cache["translations:common:en"].exp = req[r].wroteAt + OneHourMs

\* --------------------------------------------------------------------- C13
\* Every entry expires one hour after it was written.
ExpiresHourAfterWrite ==
    \A k \in DOMAIN cache : cache[k].exp = cache[k].at + OneHourMs

\* A hit returns the stored map and leaves the cache as it is, expirations
\* included; only a write under a key moves that key's expiration; and a
\* lookup made more than one hour after the write misses, whatever hits there
\* were in between.
HitChangesNothing ==
    /\ \A r \in Reqs :
          (req[r].pc = "get" /\ req'[r].pc = "done")
          => /\ cache' = cache
             /\ req'[r].resp = Ok(cache[req[r].cacheKey].val)
             /\ req'[r].writes = 0
             /\ req'[r].wroteAt = -1
    /\ \A k \in DOMAIN cache :
          (k \in DOMAIN cache' /\ cache'[k].exp # cache[k].exp)
          => \E r \in Reqs : req[r].pc = "set" /\ req'[r].pc = "done" /\ req[r].cacheKey = k
    /\ \A r \in Reqs :
          ( /\ req[r].pc = "get" /\ req'[r].pc # "get"
            /\ req[r].cacheKey \in DOMAIN cache
            /\ now > cache[req[r].cacheKey].at + OneHourMs )
          => req'[r].pc = "loadInfo"

\* C13: an entry's expiration is its write time plus one hour; a hit returns
\* the stored map unchanged, writes nothing and does not move the expiration,
\* so an entry that is only read expires one hour after it was written.
C13_NoSlidingExpiration == [] ExpiresHourAfterWrite /\ [][HitChangesNothing]_vars

\* An entry written at time 0 was hit by one call, and a later call for the
\* same key, made eighty minutes after the write, has missed.
C13_Witness ==
    \E r, q \in Reqs :
        /\ r # q
        /\ req[q].cacheKey = req[r].cacheKey
        /\ req[q].pc = "done" /\ req[q].lookup = "live" /\ req[q].calls = << >>
        /\ req[r].pc = "loadInfo" /\ req[r].lookup = "expired"
        /\ cache[req[r].cacheKey].at = 0
        /\ cache[req[r].cacheKey].exp = OneHourMs
        /\ now = 2 * ClockStep

\* --------------------------------------------------------------------- C14
\* The remote operations of a miss, in the order the claim gives.
RemoteOrder == <<"loadInfo", "loadHeaderRow", "getRows">>

\* The remote calls a request has made are the first ones of the order, each
\* once, as far as the request has come; a failed request is finished.
CallsInOrder ==
    \A r \in Reqs :
        /\ Len(req[r].calls) <= Len(RemoteOrder)
        /\ \A i \in DOMAIN req[r].calls : req[r].calls[i] = RemoteOrder[i]
        /\ req[r].pc = "loadInfo" => Len(req[r].calls) = 1
        /\ req[r].pc = "loadHeaderRow" => Len(req[r].calls) = 2
        /\ req[r].pc \in {"getRows", "set"} => Len(req[r].calls) = 3
        /\ req[r].cause # NoError => (req[r].pc = "done" /\ req[r].resp.status = 500)

\* A step adds at most the next remote call, and only for a request that has
\* not failed; the step in which a request fails makes no remote call and
\* ends the request; after that its calls stay as they are until the next
\* request takes its place.
NoRetry ==
    \A r \in Reqs :
        /\ req'[r].calls # req[r].calls
           => \/ /\ req[r].pc \in {"idle", "done"}
                 /\ req'[r].calls = << >>
              \/ /\ req[r].pc \notin {"idle", "done"}
                 /\ req'[r].calls = Append(req[r].calls, RemoteOrder[Len(req[r].calls) + 1])
                 /\ req'[r].cause = NoError
        /\ (req[r].cause = NoError /\ req'[r].cause # NoError)
           => /\ req'[r].calls = req[r].calls
              /\ req'[r].pc = "done"
              /\ req'[r].resp.status = 500

\* C14: a call that misses makes the remote calls at most once each, in the
\* order loadInfo, loadHeaderRow, getRows; the first step that fails ends the
\* call with the error, with no later remote call and none repeated.
C14_OnceEachInOrder == [] CallsInOrder /\ [][NoRetry]_vars

\* A call whose loadHeaderRow failed has ended with the error after loadInfo
\* and loadHeaderRow, and another whose getRows failed after all three.
C14_Witness ==
    \E r, q \in Reqs :
        /\ req[r].pc = "done" /\ req[r].cause = RemoteError
        /\ req[r].calls = <<"loadInfo", "loadHeaderRow">>
        /\ req[r].resp.status = 500
        /\ req[q].pc = "done" /\ req[q].cause = RemoteError
        /\ req[q].calls = <<"loadInfo", "loadHeaderRow", "getRows">>

\* --------------------------------------------------------------------- C15
\* C15: calls for different (namespace, language) pairs use different cache
\* keys, the pairs whose strings contain ':' included; so no call answers from
\* an entry written for another pair, and no call writes over one.
C15_KeyedByPair ==
    /\ \A r, q \in Reqs :
          ( /\ req[r].cacheKey # "" /\ req[q].cacheKey # ""
            /\ <<req[r].ns, req[r].lang>> # <<req[q].ns, req[q].lang>> )
          => req[r].cacheKey # req[q].cacheKey
    /\ \A r \in Reqs :
          (req[r].pc = "done" /\ req[r].lookup = "live" /\ req[r].cacheKey \in DOMAIN cache)
          => /\ cache[req[r].cacheKey].src.ns = req[r].ns
             /\ cache[req[r].cacheKey].src.lang = req[r].lang

\* --------------------------------------------------------------------- C16
\* A request that has the cache write still to do has listed the rows and
\* holds their map; one that returned a map after remote calls has made all
\* three of them and has written the cache.
WriteFollowsListing ==
    \A r \in Reqs :
        /\ req[r].pc = "set"
           => /\ req[r].calls = <<"loadInfo", "loadHeaderRow", "getRows">>
              /\ req[r].translations = Transform(req[r].rows, req[r].lang)
              /\ req[r].resp.status = 0
        /\ (req[r].resp.status = 200 /\ req[r].lookup \notin {"live", "edge"})
           => /\ req[r].calls = <<"loadInfo", "loadHeaderRow", "getRows">>
              /\ req[r].writes = 1
              /\ req[r].wroteAt >= 0
        /\ req[r].wroteAt >= 0
           => req[r].calls = <<"loadInfo", "loadHeaderRow", "getRows">>

\* The step in which a call that missed returns its map is the one that
\* completes its cache write: the map returned is then stored under the
\* call's own key; and the cache is written by no request that has not listed
\* its rows.
StoredWhenReturned ==
    \A r \in Reqs :
        /\ (req[r].pc \notin {"idle", "done", "get"} /\ req'[r].resp.status = 200)
           => /\ req[r].pc = "set"
              /\ req[r].cacheKey \in DOMAIN cache'
              /\ cache'[req[r].cacheKey].val = req'[r].resp.body
              /\ cache'[req[r].cacheKey].at = now
              /\ req'[r].resp.body = req[r].translations
              /\ req'[r].wroteAt = now
        /\ (req'[r] # req[r] /\ cache' # cache)
           => (req[r].pc = "set" /\ Len(req[r].calls) = 3)

\* C16: a call that missed and returns a map has by then completed the cache
\* write of that very map under its own key; no map comes back from the miss
\* path unstored, and the write comes after the row listing.
C16_WriteBeforeReturn == [] WriteFollowsListing /\ [][StoredWhenReturned]_vars

\* A call for (common, x:en) has listed the rows, written their map {hi: X1}
\* and returned it; the cache holds that map under the call's key.
C16_Witness ==
    \E r \in Reqs :
        /\ req[r].pc = "done"
        /\ req[r].ns = "common" /\ req[r].lang = "x:en"
        /\ req[r].calls = <<"loadInfo", "loadHeaderRow", "getRows">>
        /\ req[r].resp = Ok("hi" :> "X1")
        /\ req[r].wroteAt = now
        /\ cache[req[r].cacheKey].val = ("hi" :> "X1")
        /\ cache[req[r].cacheKey].at = req[r].wroteAt

\* --------------------------------------------------------------------- C17
\* A request in flight has no response yet; a finished one has one of the
\* three: 400, 200 or 500.
OneOutcome ==
    \A r \in Reqs :
        /\ req[r].pc = "idle" => req[r].resp = NoResponse
        /\ req[r].pc \in {"get", "loadInfo", "loadHeaderRow", "getRows", "set"}
           => req[r].resp = NoResponse
        /\ req[r].pc = "done" => req[r].resp.status \in {400, 200, 500}
        /\ req[r].resp.status = 400 => Falsy(req[r].lang)
        /\ req[r].resp.status = 500 => (req[r].cause # NoError /\ req[r].resp.body = EmptyMap)
        /\ req[r].resp.status = 200 => req[r].cause = NoError

\* The response of a finished request stays as it is until the next request
\* takes its place.
OutcomeIsFinal ==
    \A r \in Reqs :
        (req[r].pc = "done" /\ req'[r] # req[r])
        => /\ received' = received + 1
           /\ req'[r].pc \in {"get", "done"}
           /\ req'[r].calls = << >>

\* C17: when the cache and the remote operations it awaits return or fail,
\* every request completes with exactly one outcome (400 for a missing lang,
\* 200 with a map, or 500); none stays pending and none gets two outcomes.
C17_EveryRequestCompletes ==
    /\ [] OneOutcome
    /\ [][OutcomeIsFinal]_vars
    /\ \A r \in Reqs : (req[r].pc \notin {"idle", "done"}) ~> (req[r].pc = "done")

\* The requests have completed with the three outcomes: the last with 400,
\* and before it one with a map and one with the retrieval error.
C17_Witness ==
    \E r, q \in Reqs :
        /\ received = MaxRequests
        /\ req[r].pc = "done" /\ req[r].resp.status = 400
        /\ req[q].pc = "done" /\ req[q].resp.status = 500
        /\ \E k \in DOMAIN cache : cache[k].val # EmptyMap

====
